---- MODULE Spec2Model ----
(***************************************************************************)
(* CryptoDash (app/main.py): one Streamlit script run ("render pass") of   *)
(* main(), the two CryptoAPI fetches it calls, and the user's widget       *)
(* events that start the next run.                                         *)
(*                                                                         *)
(* A Python dict is a function with a finite domain of strings; a list is  *)
(* a sequence; a pandas table is [columns, rows] with every cell <<v>> or  *)
(* <<>> (NaN / NaT).  Time is counted in seconds and advances only by the  *)
(* script's sleep and by the time the user lets pass between two events.   *)
(* The sidebar's "period" widget only sets the days parameter of the       *)
(* historical request and is covered by the Interact event.                *)
(***************************************************************************)
EXTENDS Integers, Sequences, FiniteSets, TLC

VARIABLES
    selected_coins,   \* main.py:160 the multiselect's value, in selection order
    auto_refresh,     \* main.py:175 the checkbox's value
    pc,               \* position of the script run
    crypto_data,      \* main.py:192 local of main()
    historical_data,  \* main.py:233 local of main()
    response,         \* outcome of the HTTP request the script has just received
    price_status,     \* how the price request of this run ended
    call_requests,    \* HTTP requests issued by the current get_crypto_data call
    screen,           \* elements this run has sent to the page
    age               \* seconds since the last price answer with data for this selection

vars == <<selected_coins, auto_refresh, pc, crypto_data, historical_data,
          response, price_status, call_requests, screen, age>>

----------------------------------------------------------------------------
(* Bounds of the model *)

\* longest selection the user builds in the render-pass specification
MaxSelected == 3
\* longest selection drawn for the alerts specification
MaxAlertCoins == 4
\* most points the upstream puts in a market_chart list
MaxPoints == 2

(* Program constants *)

CACHE_DURATION == 60
REFRESH_INTERVAL == 30
TopN == 3

----------------------------------------------------------------------------
(* Values *)

CoinNames == {"Bitcoin", "Ethereum", "Cardano", "Polkadot", "Chainlink"}

available_coins ==
    [c \in CoinNames |->
        CASE c = "Bitcoin"   -> "bitcoin"
          [] c = "Ethereum"  -> "ethereum"
          [] c = "Cardano"   -> "cardano"
          [] c = "Polkadot"  -> "polkadot"
          [] c = "Chainlink" -> "chainlink"]

DefaultSelection == <<"Bitcoin", "Ethereum", "Cardano">>

EmptyDict == [k \in {} |-> 0]

\* dict.get(key, default)
Get(d, k, default) == IF k \in DOMAIN d THEN d[k] ELSE default

Range(s) == {s[i] : i \in 1..Len(s)}

\* lists without repetition, as a multiselect returns them
Selections(n) ==
    UNION {{s \in [1..k -> CoinNames] : \A i, j \in 1..k : i # j => s[i] # s[j]} : k \in 0..n}

\* coin_ids = [available_coins[coin] for coin in selected_coins]
CoinIds(sel) == [i \in 1..Len(sel) |-> available_coins[sel[i]]]

\* one asset's entry of a /simple/price answer
AssetData(change) ==
    [usd |-> 100, usd_24h_change |-> change, usd_market_cap |-> 2000000, usd_24h_vol |-> 5000]

\* 24h changes the upstream reports in the render-pass specification
Changes == {-1, 2}
\* 24h changes drawn for the alerts specification
AlertChanges == {-2, -1, 0, 1, 2}

\* bodies of a 200 answer for ids: any subset of the ids, each with its data
PriceBodies(ids) ==
    UNION {[S -> {AssetData(c) : c \in Changes}] : S \in SUBSET Range(ids)}

\* body of a non-success answer (rate limit): a JSON error object
ErrorBody == [status |-> [error_code |-> 429]]

ExceptionCauses == {"network", "malformed", "timeout"}

NoResponse == [api |-> "none"]

EmptyScreen ==
    [info |-> FALSE, errors |-> <<>>, metrics |-> <<>>, chart |-> FALSE,
     comparison |-> <<>>, alerts |-> FALSE, gainers |-> <<>>, losers |-> <<>>,
     exception |-> "none"]

NoEntry == 0 - 1

\* pd.DataFrame()
EmptyFrame == [columns |-> <<>>, rows |-> <<>>]

----------------------------------------------------------------------------
(* CryptoAPI.get_crypto_data *)

\* outcomes of session.get(...) followed by response.json(): a JSON body
\* (whatever the status code, which the code never reads) or an exception
PriceOutcomes(ids) ==
    {[api |-> "price", kind |-> "json", status |-> 200, body |-> b] : b \in PriceBodies(ids)}
    \cup {[api |-> "price", kind |-> "json", status |-> 429, body |-> ErrorBody]}
    \cup {[api |-> "price", kind |-> "exception", cause |-> c] : c \in ExceptionCauses}

\* get_crypto_data without its try/except: the exception leaves the call
get_crypto_data_unguarded(coins, outcome) ==
    IF outcome.kind = "json"
    THEN [raised |-> FALSE, value |-> outcome.body, reported |-> <<>>]
    ELSE [raised |-> TRUE, value |-> EmptyDict, reported |-> <<>>]

\* get_crypto_data with made-up records in place of the empty dict
get_crypto_data_mock(coins, outcome) ==
    IF outcome.kind = "json"
    THEN [raised |-> FALSE, value |-> outcome.body, reported |-> <<>>]
    ELSE [raised |-> FALSE, value |-> [id \in Range(coins) |-> AssetData(0)],
          reported |-> <<<<"Erro ao buscar dados", outcome.cause>>>>]

\* what the call hands to its caller for an outcome of its request
get_crypto_data(coins, outcome) ==
    IF outcome.kind = "json"
    THEN [raised |-> FALSE, value |-> outcome.body, reported |-> <<>>]
    ELSE [raised |-> FALSE, value |-> EmptyDict,
          reported |-> <<<<"Erro ao buscar dados", outcome.cause>>>>]

----------------------------------------------------------------------------
(* CryptoAPI.get_historical_data *)

Point(i, base) == <<i, base + i>>

\* bodies of a market_chart answer: a JSON object that may lack either list
HistBodies ==
    {[prices |-> [i \in 1..n |-> Point(i, 100)],
      total_volumes |-> [i \in 1..m |-> Point(i, 10)]] : n \in 0..MaxPoints, m \in 0..MaxPoints}
    \cup {[prices |-> [i \in 1..n |-> Point(i, 100)]] : n \in 0..MaxPoints}
    \cup {[total_volumes |-> [i \in 1..m |-> Point(i, 10)]] : m \in 0..MaxPoints}

HistOutcomes ==
    {[api |-> "hist", kind |-> "json", body |-> b] : b \in HistBodies}
    \cup {[api |-> "hist", kind |-> "exception", cause |-> c] : c \in {"network", "malformed"}}

\* the table the call returns for an outcome of its request
get_historical_data(outcome) ==
    IF outcome.kind # "json" THEN EmptyFrame
    ELSE IF "prices" \notin DOMAIN outcome.body THEN EmptyFrame
    ELSE IF "total_volumes" \notin DOMAIN outcome.body THEN EmptyFrame
    ELSE LET prices == outcome.body.prices
             volume == [i \in 1..Len(outcome.body.total_volumes) |->
                            outcome.body.total_volumes[i][2]]
         IN  IF Len(prices) = Len(volume)
             THEN [columns |-> <<"timestamp", "price", "volume">>,
                   rows |-> [i \in 1..Len(prices) |->
                               [timestamp |-> <<prices[i][1]>>, price |-> <<prices[i][2]>>,
                                volume |-> <<volume[i]>>]]]
             ELSE IF Len(prices) = 0
             \* a frame without rows takes its index from the assigned list
             THEN [columns |-> <<"timestamp", "price", "volume">>,
                   rows |-> [i \in 1..Len(volume) |->
                               [timestamp |-> <<>>, price |-> <<>>, volume |-> <<volume[i]>>]]]
             ELSE EmptyFrame

\* DataFrame.empty
IsEmptyFrame(df) == Len(df.columns) = 0 \/ Len(df.rows) = 0

----------------------------------------------------------------------------
(* Rendering: what main() computes from selected_coins and crypto_data *)

\* the st.metric cards: label, value, delta
Metrics(sel, data) ==
    [i \in 1..Len(sel) |->
        LET d == Get(data, available_coins[sel[i]], EmptyDict)
        IN  [coin |-> sel[i], price |-> Get(d, "usd", 0),
             change |-> Get(d, "usd_24h_change", 0)]]

\* comparison_data
Comparison(sel, data) ==
    [i \in 1..Len(sel) |->
        LET d == Get(data, available_coins[sel[i]], EmptyDict)
        IN  [coin |-> sel[i], price |-> Get(d, "usd", 0),
             change |-> Get(d, "usd_24h_change", 0),
             market_cap |-> Get(d, "usd_market_cap", 0),
             volume |-> Get(d, "usd_24h_vol", 0)]]

\* crypto_data[available_coins[coin]] raises KeyError for some selected coin
AlertsKeyError(sel, data) ==
    \E i \in 1..Len(sel) : available_coins[sel[i]] \notin DOMAIN data

\* [(coin, crypto_data[available_coins[coin]].get('usd_24h_change', 0)) for coin in selected_coins]
ChangePairs(sel, data) ==
    [i \in 1..Len(sel) |-> <<sel[i], Get(data[available_coins[sel[i]]], "usd_24h_change", 0)>>]

\* list.sort(key=lambda x: x[1], reverse=...): stable in both directions
RECURSIVE Insert(_, _, _)
Insert(s, x, reverse) ==
    IF s = <<>> THEN <<x>>
    ELSE IF (IF reverse THEN Head(s)[2] >= x[2] ELSE Head(s)[2] <= x[2])
         THEN <<Head(s)>> \o Insert(Tail(s), x, reverse)
         ELSE <<x>> \o s

RECURSIVE SortFrom(_, _, _)
SortFrom(done, rest, reverse) ==
    IF rest = <<>> THEN done
    ELSE SortFrom(Insert(done, Head(rest), reverse), Tail(rest), reverse)

Sort(s, reverse) == SortFrom(<<>>, s, reverse)

\* s[:n]
Prefix(s, n) == SubSeq(s, 1, IF Len(s) < n THEN Len(s) ELSE n)

Positive(x) == x[2] > 0
Negative(x) == x[2] < 0

NonNegative(x) == x[2] >= 0

\* Gainers with >= in place of > in the test before st.success
Gainers_weak_test(sel, data) ==
    SelectSeq(Prefix(Sort(ChangePairs(sel, data), TRUE), TopN), NonNegative)

\* the st.success lines under "Maiores Altas"
Gainers(sel, data) ==
    SelectSeq(Prefix(Sort(ChangePairs(sel, data), TRUE), TopN), Positive)

\* the st.error lines under "Maiores Baixas"
Losers(sel, data) ==
    SelectSeq(Prefix(Sort(ChangePairs(sel, data), FALSE), TopN), Negative)

----------------------------------------------------------------------------
(* The script run *)

Init ==
    /\ selected_coins = DefaultSelection
    /\ auto_refresh = TRUE
    /\ pc = "start"
    /\ crypto_data = EmptyDict
    /\ historical_data = EmptyFrame
    /\ response = NoResponse
    /\ price_status = "none"
    /\ call_requests = 0
    /\ screen = EmptyScreen
    /\ age = NoEntry

\* the age of the stored answer after dt more seconds, counted up to the TTL
Aged(a, dt) ==
    IF a = NoEntry THEN NoEntry
    ELSE IF a + dt > CACHE_DURATION THEN CACHE_DURATION ELSE a + dt

\* a new run of main() from the top: the locals and the page start afresh
Rerun(sel, auto, dt) ==
    /\ selected_coins' = sel
    /\ auto_refresh' = auto
    /\ pc' = "start"
    /\ crypto_data' = EmptyDict
    /\ historical_data' = EmptyFrame
    /\ response' = NoResponse
    /\ price_status' = "none"
    /\ call_requests' = 0
    /\ screen' = EmptyScreen
    /\ age' = IF sel = selected_coins THEN Aged(age, dt) ELSE NoEntry

\* main(): the widgets are read, then the auto-refresh test, then the
\* selection test; with a selection the call of get_crypto_data begins
PassStart ==
    /\ pc = "start"
    /\ IF auto_refresh
       THEN pc' = "sleep" /\ screen' = screen
       ELSE IF Len(selected_coins) > 0
       THEN pc' = "price_call" /\ screen' = screen
       ELSE pc' = "done" /\ screen' = [screen EXCEPT !.info = TRUE]
    /\ UNCHANGED <<selected_coins, auto_refresh, crypto_data, historical_data,
                   response, price_status, call_requests, age>>

\* time.sleep(30); st.rerun(): the run ends here and the next one starts
SleepRerun ==
    /\ pc = "sleep"
    /\ Rerun(selected_coins, auto_refresh, REFRESH_INTERVAL)

\* IssuePriceRequest with one request per id
IssuePriceRequest_per_coin ==
    /\ pc = "price_call"
    /\ pc' = "price_wait"
    /\ call_requests' = call_requests + Len(selected_coins)
    /\ UNCHANGED <<selected_coins, auto_refresh, crypto_data, historical_data,
                   response, price_status, screen, age>>

\* session.get(url, params): every id of the call goes into one request
IssuePriceRequest ==
    /\ pc = "price_call"
    /\ pc' = "price_wait"
    /\ call_requests' = call_requests + 1
    /\ UNCHANGED <<selected_coins, auto_refresh, crypto_data, historical_data,
                   response, price_status, screen, age>>

\* the request ends with outcome; get_crypto_data returns to main()
PriceReturn(outcome) ==
    /\ pc = "price_wait"
    /\ LET r == get_crypto_data(CoinIds(selected_coins), outcome)
       IN  /\ response' = outcome
           /\ price_status' = IF outcome.kind = "exception" THEN "exception"
                              ELSE IF outcome.status = 200 THEN "ok" ELSE "status"
           /\ IF r.raised
              THEN /\ pc' = "done"
                   /\ crypto_data' = crypto_data
                   /\ screen' = [screen EXCEPT !.exception = outcome.cause]
              ELSE /\ pc' = "price_returned"
                   /\ crypto_data' = r.value
                   /\ screen' = [screen EXCEPT !.errors = @ \o r.reported]
           \* a successful answer that holds data is what a cache would store
           /\ age' = IF /\ outcome.kind = "json"
                        /\ outcome.status = 200
                        /\ outcome.body # EmptyDict
                     THEN 0 ELSE age
    /\ UNCHANGED <<selected_coins, auto_refresh, historical_data, call_requests>>

\* the upstream answers with a JSON body
PriceRespond ==
    \E o \in PriceOutcomes(CoinIds(selected_coins)) :
        o.kind = "json" /\ PriceReturn(o)

\* the request or the parsing of its body raises
PriceFail ==
    \E c \in ExceptionCauses \ {"timeout"} :
        PriceReturn([api |-> "price", kind |-> "exception", cause |-> c])

\* the session's total timeout ends a request the upstream never answers
PriceTimeout ==
    PriceReturn([api |-> "price", kind |-> "exception", cause |-> "timeout"])

\* if crypto_data: the metric cards, then the call of get_historical_data
\* for the first selected coin; else the error message
RenderOverview ==
    /\ pc = "price_returned"
    /\ response' = NoResponse
    /\ IF crypto_data # EmptyDict
       THEN /\ screen' = [screen EXCEPT !.metrics = Metrics(selected_coins, crypto_data)]
            /\ pc' = "hist_wait"
       ELSE /\ screen' = [screen EXCEPT
                            !.errors = @ \o <<<<"Nao foi possivel carregar os dados", "">>>>]
            /\ pc' = "done"
    /\ UNCHANGED <<selected_coins, auto_refresh, crypto_data, historical_data,
                   price_status, call_requests, age>>

\* requests.get(url, params) ends with outcome; get_historical_data returns
HistReturn(outcome) ==
    /\ pc = "hist_wait"
    /\ response' = outcome
    /\ historical_data' = get_historical_data(outcome)
    /\ pc' = "hist_returned"
    /\ UNCHANGED <<selected_coins, auto_refresh, crypto_data, price_status,
                   call_requests, screen, age>>

HistRespond == \E o \in HistOutcomes : o.kind = "json" /\ HistReturn(o)

HistFail == \E o \in HistOutcomes : o.kind = "exception" /\ HistReturn(o)

\* the three tabs: the price chart when the table is not empty, the
\* comparison table
RenderTabs ==
    /\ pc = "hist_returned"
    /\ response' = NoResponse
    /\ screen' = [screen EXCEPT !.chart = ~IsEmptyFrame(historical_data),
                                !.comparison = Comparison(selected_coins, crypto_data)]
    /\ pc' = "alerts"
    /\ UNCHANGED <<selected_coins, auto_refresh, crypto_data, historical_data,
                   price_status, call_requests, age>>

\* "Alertas e Insights": the gainers list is built first and raises KeyError
\* for a selected coin the mapping lacks; the run then ends with the exception
RenderAlerts ==
    /\ pc = "alerts"
    /\ IF AlertsKeyError(selected_coins, crypto_data)
       THEN screen' = [screen EXCEPT !.alerts = TRUE, !.exception = "KeyError"]
       ELSE screen' = [screen EXCEPT !.alerts = TRUE,
                                     !.gainers = Gainers(selected_coins, crypto_data),
                                     !.losers = Losers(selected_coins, crypto_data)]
    /\ pc' = "done"
    /\ UNCHANGED <<selected_coins, auto_refresh, crypto_data, historical_data,
                   response, price_status, call_requests, age>>

----------------------------------------------------------------------------
(* The user: a widget event reruns the script.  An event made during the   *)
(* sleep takes effect when the sleep ends.                                 *)

IdleTimes == {0, REFRESH_INTERVAL, CACHE_DURATION}

Elapsed == IF pc = "sleep" THEN {REFRESH_INTERVAL} ELSE IdleTimes

Interruptible == pc \in {"sleep", "done"}

ToggleAutoRefresh ==
    /\ Interruptible
    /\ \E dt \in Elapsed : Rerun(selected_coins, ~auto_refresh, dt)

Select ==
    /\ Interruptible
    /\ Len(selected_coins) < MaxSelected
    /\ \E c \in CoinNames \ Range(selected_coins) : \E dt \in Elapsed :
           Rerun(Append(selected_coins, c), auto_refresh, dt)

Deselect ==
    /\ Interruptible
    /\ \E i \in 1..Len(selected_coins) : \E dt \in Elapsed :
           Rerun(SubSeq(selected_coins, 1, i - 1)
                    \o SubSeq(selected_coins, i + 1, Len(selected_coins)),
                 auto_refresh, dt)

\* any other widget event (the period selectbox, a manual rerun)
Interact ==
    /\ Interruptible
    /\ \E dt \in Elapsed : Rerun(selected_coins, auto_refresh, dt)

ScriptStep ==
    \/ PassStart
    \/ SleepRerun
    \/ IssuePriceRequest
    \/ PriceTimeout
    \/ RenderOverview
    \/ RenderTabs
    \/ RenderAlerts

Next ==
    \/ PassStart
    \/ SleepRerun
    \/ IssuePriceRequest
    \/ PriceRespond
    \/ PriceFail
    \/ PriceTimeout
    \/ RenderOverview
    \/ HistRespond
    \/ HistFail
    \/ RenderTabs
    \/ RenderAlerts
    \/ ToggleAutoRefresh
    \/ Select
    \/ Deselect
    \/ Interact

Spec == Init /\ [][Next]_vars

\* the script runs on once started; the upstream and the user owe nothing
FairSpec == Spec /\ WF_vars(ScriptStep)

----------------------------------------------------------------------------
(* The alerts section on its own: every selection of up to MaxAlertCoins   *)
(* coins and every mapping that holds all of them, at the point where the  *)
(* tabs have been rendered.                                                *)

InitAlerts ==
    /\ selected_coins \in Selections(MaxAlertCoins) \ {<<>>}
    /\ crypto_data \in [Range(CoinIds(selected_coins)) -> {AssetData(c) : c \in AlertChanges}]
    /\ auto_refresh = FALSE
    /\ pc = "alerts"
    /\ historical_data = EmptyFrame
    /\ response = NoResponse
    /\ price_status = "ok"
    /\ call_requests = 1
    /\ screen = [EmptyScreen EXCEPT !.metrics = Metrics(selected_coins, crypto_data),
                                    !.comparison = Comparison(selected_coins, crypto_data)]
    /\ age = 0

NextAlerts == RenderAlerts

AlertsSpec == InitAlerts /\ [][NextAlerts]_vars

----------------------------------------------------------------------------
(* Properties *)

PriceFailed ==
    /\ response.api = "price"
    /\ (response.kind = "exception" \/ response.status # 200)

\* C1: two requests for the market data of the same selection within
\* CACHE_DURATION seconds issue at most one upstream price request: no
\* request is issued while an answer younger than the TTL is stored.
C1_CacheHitWithinTTL ==
    pc = "price_wait" => ~(age # NoEntry /\ age < CACHE_DURATION)

C3_NumbersOnlyOnSuccess ==
    (screen.metrics # <<>> \/ screen.comparison # <<>>) => price_status = "ok"

Omitted == {id \in Range(CoinIds(selected_coins)) : id \notin DOMAIN crypto_data}

\* C4: when the upstream call succeeds but omits a requested asset, the
\* mapping has no key for it and the render pass ends without raising.
C4_OmittedAssetNoError ==
    (price_status = "ok" /\ pc = "done" /\ Omitted # {}) => screen.exception = "none"

\* C5: while auto-refresh is enabled and an asset is selected, the data of
\* the selection is eventually fetched.
C5_RefreshFetches ==
    (auto_refresh /\ Len(selected_coins) > 0)
        ~> (price_status # "none" \/ ~auto_refresh \/ Len(selected_coins) = 0)

\* C6: every fetch call terminates, the price request and the historical
\* request alike, also when the upstream never answers.
C6_FetchTerminates ==
    (pc \in {"price_wait", "hist_wait"}) ~> (pc \notin {"price_wait", "hist_wait"})

\* C7: each call of get_crypto_data issues exactly one HTTP request, for any
\* number of ids and any outcome.
C7_OneRequestPerCall ==
    /\ pc = "price_wait" => call_requests = 1
    /\ response.api = "price" => call_requests = 1

C7_Witness ==
    /\ pc = "price_returned"
    /\ response.kind = "exception"
    /\ Len(selected_coins) >= 2

FullRow(body, i) ==
    [timestamp |-> <<body.prices[i][1]>>, price |-> <<body.prices[i][2]>>,
     volume |-> <<body.total_volumes[i][2]>>]

HistFailed ==
    \/ response.kind = "exception"
    \/ "prices" \notin DOMAIN response.body
    \/ "total_volumes" \notin DOMAIN response.body
    \/ Len(response.body.prices) # Len(response.body.total_volumes)

\* C9: get_historical_data returns the table with one complete row per
\* price point, or an empty table; every failure yields the empty table.
C9_AllOrNothing ==
    response.api = "hist" =>
        IF HistFailed
        THEN IsEmptyFrame(historical_data)
        ELSE /\ historical_data.columns = <<"timestamp", "price", "volume">>
             /\ Len(historical_data.rows) = Len(response.body.prices)
             /\ \A i \in 1..Len(historical_data.rows) :
                    historical_data.rows[i] = FullRow(response.body, i)

ChangeOf(coin) == Get(crypto_data[available_coins[coin]], "usd_24h_change", 0)

Shown(list) == {list[i][1] : i \in 1..Len(list)}

\* list holds selected coins with their changes, each coin once
WellFormed(list) ==
    /\ \A i \in 1..Len(list) :
          list[i][1] \in Range(selected_coins) /\ list[i][2] = ChangeOf(list[i][1])
    /\ \A i, j \in 1..Len(list) : i # j => list[i][1] # list[j][1]

\* C10: the gainers are the selected coins with a positive change among the
\* three highest, in descending order; the losers those with a negative
\* change among the three lowest, in ascending order; at most three each, no
\* coin in both, a coin with change 0 in neither.
C10_GainersAndLosers ==
    (pc = "done" /\ screen.alerts /\ screen.exception = "none") =>
        LET G == screen.gainers
            L == screen.losers
        IN  /\ Len(G) <= TopN /\ Len(L) <= TopN
            /\ WellFormed(G) /\ WellFormed(L)
            /\ \A i \in 1..Len(G) : G[i][2] > 0
            /\ \A i \in 1..Len(L) : L[i][2] < 0
            /\ \A i, j \in 1..Len(G) : i < j => G[i][2] >= G[j][2]
            /\ \A i, j \in 1..Len(L) : i < j => L[i][2] <= L[j][2]
            \* a shown coin has fewer than three coins strictly above (below) it
            /\ \A c \in Shown(G) :
                   Cardinality({d \in Range(selected_coins) : ChangeOf(d) > ChangeOf(c)}) < TopN
            /\ \A c \in Shown(L) :
                   Cardinality({d \in Range(selected_coins) : ChangeOf(d) < ChangeOf(c)}) < TopN
            \* a coin left out is left out only by three shown coins at least as high (low)
            /\ \A c \in Range(selected_coins) \ Shown(G) :
                   ChangeOf(c) > 0 =>
                       Len(G) = TopN /\ \A i \in 1..Len(G) : G[i][2] >= ChangeOf(c)
            /\ \A c \in Range(selected_coins) \ Shown(L) :
                   ChangeOf(c) < 0 =>
                       Len(L) = TopN /\ \A i \in 1..Len(L) : L[i][2] <= ChangeOf(c)
            /\ Shown(G) \cap Shown(L) = {}
            /\ \A c \in Range(selected_coins) :
                   ChangeOf(c) = 0 => c \notin Shown(G) \cup Shown(L)

C10_Witness ==
    /\ pc = "done"
    /\ screen.exception = "none"
    /\ Len(screen.gainers) = TopN
    /\ screen.gainers[1][2] > screen.gainers[3][2]
    /\ \E c \in Range(selected_coins) \ Shown(screen.gainers) :
           ChangeOf(c) = screen.gainers[3][2]

====
